---- MODULE Spec2Model ----
(***************************************************************************)
(* Histogram bucket algebra of CBucket.cpp (gporca, libnaucrates).         *)
(*                                                                         *)
(* A bucket is a record                                                    *)
(*   [lower, upper, is_lower_closed, is_upper_closed, frequency, distinct] *)
(* over integer valued points.  Frequencies, distinct counts and row       *)
(* counts are exact fractions <<numerator, denominator>>.                  *)
(***************************************************************************)
EXTENDS Integers, Sequences, FiniteSets, TLC

VARIABLES
    op,             \* the operation that produced `out` ("none" before any call)
    lint,           \* TRUE: the datums are mappable to LINT (discrete domain)
    this,           \* the bucket the operation is invoked on
    other,          \* the bucket argument of a two bucket operation
    point,          \* the point argument of a point operation
    include,        \* the include_point / include_upper / include_lower argument
    rows,           \* <<rows, rows_other>> (or <<rows_old, rows_new>>)
    is_union_all,   \* the is_union_all argument of MakeBucketMerged
    out             \* what the operation returned

vars == <<op, lint, this, other, point, include, rows, is_union_all, out>>

-----------------------------------------------------------------------------
(* Bounds of the model *)

\* points are the integers 0 .. MaxValue
MaxValue == 3

-----------------------------------------------------------------------------
(* CDouble: exact fractions <<numerator, denominator>> in lowest terms *)

Abs(n) == IF n < 0 THEN -n ELSE n

RECURSIVE GCD(_, _)
GCD(a, b) == IF b = 0 THEN a ELSE GCD(b, a % b)

\* the fraction n/d in lowest terms with a positive denominator; a division by
\* zero gives a denominator of 0, which no operation of the model reaches
\* (see OutDefined)
Norm(n, d) ==
    LET nn == IF d < 0 THEN -n ELSE n
        dd == Abs(d)
        g  == GCD(Abs(nn), dd)
    IN  IF g = 0 THEN <<0, 0>> ELSE <<nn \div g, dd \div g>>

Zero == <<0, 1>>
One  == <<1, 1>>
Half == <<1, 2>>
Two  == <<2, 1>>
Int2R(n) == <<n, 1>>

\* the value is the result of no division by zero
Defined(a) == a[2] # 0

RAdd(a, b) == Norm(a[1] * b[2] + b[1] * a[2], a[2] * b[2])

RNeg(a) == <<-a[1], a[2]>>

RSub(a, b) == RAdd(a, RNeg(b))

RMul(a, b) == Norm(a[1] * b[1], a[2] * b[2])

RDiv(a, b) == Norm(a[1] * b[2], a[2] * b[1])

RLt(a, b) == a[1] * b[2] < b[1] * a[2]

REq(a, b) == a = b

RLe(a, b) == RLt(a, b) \/ REq(a, b)

\* std::min(a, b) is (b < a) ? b : a, std::max(a, b) is (a < b) ? b : a
StdMin(a, b) == IF RLt(b, a) THEN b ELSE a
StdMax(a, b) == IF RLt(a, b) THEN b ELSE a

-----------------------------------------------------------------------------
(* CPoint: the boundary value capability the bucket consumes *)

Points == 0 .. MaxValue

MinPoint(p, q) == IF p <= q THEN p ELSE q
MaxPoint(p, q) == IF p >= q THEN p ELSE q

\* CPoint::Distance, non-negative and symmetric
Distance(p, q) == Int2R(Abs(p - q))

\* CPoint::Width: the distance, adjusted in a discretely ordered (LINT)
\* domain by one unit of resolution for the inclusive / exclusive ends:
\* [a,b] is one wider than [a,b) and (a,b], which are one wider than (a,b)
Width(p, q, include_lower, include_upper) ==
    LET adjust == IF lint
                  THEN 1 - (IF include_upper THEN 0 ELSE 1)
                         - (IF include_lower THEN 0 ELSE 1)
                  ELSE 0
    IN  RAdd(Distance(p, q), Int2R(adjust))

-----------------------------------------------------------------------------
(* CBucket *)

\* absent (NULL) and present results
NULL == <<>>
Some(b) == <<b>>
IsNull(r) == r = NULL
Get(r) == r[1]

\* CBucket::CBucket: the constructor stores its arguments
CBucket(lower, upper, lc, uc, frequency, distinct) ==
    [lower |-> lower, upper |-> upper,
     is_lower_closed |-> lc, is_upper_closed |-> uc,
     frequency |-> frequency, distinct |-> distinct]

IsSingleton(b) == b.lower = b.upper

\* GPOS_ASSERT(0.0 <= m_frequency && 1.0 >= m_frequency)
FrequencyAssert(b) == RLe(Zero, b.frequency) /\ RLe(b.frequency, One)

\* GPOS_ASSERT(0.0 <= m_distinct)
DistinctAssert(b) == RLe(Zero, b.distinct)

\* GPOS_ASSERT_IMP(IsSingleton(), is_lower_closed && is_upper_closed)
SingletonAssert(b) ==
    IsSingleton(b) => (b.is_lower_closed /\ b.is_upper_closed)

\* CBucket::Contains(point), mutated: the closed upper bound is not contained
ContainsNoUpper(b, p) ==
    IF IsSingleton(b) THEN b.lower = p
    ELSE IF b.is_lower_closed /\ b.lower = p THEN TRUE
    ELSE b.lower < p /\ b.upper > p

\* CBucket::Contains(point)
Contains(b, p) ==
    IF IsSingleton(b) THEN b.lower = p
    ELSE IF b.is_lower_closed /\ b.lower = p THEN TRUE
    ELSE IF b.is_upper_closed /\ b.upper = p THEN TRUE
    ELSE b.lower < p /\ b.upper > p

\* CBucket::IsBefore(point): the point is before the lower bound
IsBefore(b, p) ==
    \/ (b.is_lower_closed /\ b.lower > p)
    \/ (~b.is_lower_closed /\ b.lower >= p)

\* CBucket::IsAfter(point): the point is after the upper bound
IsAfter(b, p) ==
    \/ (b.is_upper_closed /\ b.upper < p)
    \/ (~b.is_upper_closed /\ b.upper <= p)

\* CBucket::GetOverlapPercentage
GetOverlapPercentage(b, p, include_point) ==
    IF (b.upper = p /\ include_point) \/ b.upper < p THEN One
    ELSE IF ~Contains(b, p) THEN Zero
    ELSE IF IsSingleton(b) THEN One
    ELSE LET distance_upper  == Width(b.upper, b.lower, b.is_lower_closed, b.is_upper_closed)
             distance_middle == Width(p, b.lower, b.is_lower_closed, include_point)
             res0 == RDiv(One, distance_upper)
             res  == IF RLt(Zero, distance_middle)
                     THEN RMul(res0, distance_middle)
                     ELSE res0
         IN  StdMin(res, One)

\* CBucket::MakeBucketSingleton(mp, point_singleton)
MakeBucketSingleton(b, p) ==
    LET distinct_ratio == RDiv(One, b.distinct)
        frequency_new  == StdMin(One, RMul(b.frequency, distinct_ratio))
    IN  CBucket(p, p, TRUE, TRUE, frequency_new, One)

\* CBucket::MakeBucketScaleUpper
MakeBucketScaleUpper(b, point_upper_new, include_upper) ==
    IF b.lower = point_upper_new
    THEN (IF ~include_upper THEN NULL
          ELSE Some(MakeBucketSingleton(b, point_upper_new)))
    ELSE LET scale   == b.upper # point_upper_new \/ (b.is_upper_closed /\ ~include_upper)
             overlap == GetOverlapPercentage(b, point_upper_new, include_upper)
             frequency_new == IF scale THEN RMul(b.frequency, overlap) ELSE b.frequency
             distinct_new  == IF scale THEN RMul(b.distinct, overlap) ELSE b.distinct
         IN  Some(CBucket(b.lower, point_upper_new, b.is_lower_closed, include_upper,
                          frequency_new, distinct_new))

\* CBucket::MakeBucketScaleLower
MakeBucketScaleLower(b, point_lower_new, include_lower) ==
    IF b.upper = point_lower_new
    THEN Some(MakeBucketSingleton(b, point_lower_new))
    ELSE LET scale   == b.lower # point_lower_new \/ (b.is_lower_closed /\ ~include_lower)
             overlap == RSub(One, GetOverlapPercentage(b, point_lower_new, ~include_lower))
             frequency_new == IF scale THEN RMul(b.frequency, overlap) ELSE b.frequency
             distinct_new  == IF scale THEN RMul(b.distinct, overlap) ELSE b.distinct
         IN  Some(CBucket(point_lower_new, b.upper, include_lower, b.is_upper_closed,
                          frequency_new, distinct_new))

\* CBucket::MakeBucketCopy
MakeBucketCopy(b) ==
    CBucket(b.lower, b.upper, b.is_lower_closed, b.is_upper_closed, b.frequency, b.distinct)

\* CBucket::Equals
Equals(b1, b2) ==
    /\ b1.lower = b2.lower
    /\ b1.is_lower_closed = b2.is_lower_closed
    /\ b1.upper = b2.upper
    /\ b1.is_upper_closed = b2.is_upper_closed
    /\ REq(b1.frequency, b2.frequency)
    /\ REq(b1.distinct, b2.distinct)

\* CBucket::MakeBucketUpdateFrequency
MakeBucketUpdateFrequency(b, rows_old, rows_new) ==
    LET frequency_new == RDiv(RMul(b.frequency, rows_old), rows_new)
    IN  CBucket(b.lower, b.upper, b.is_lower_closed, b.is_upper_closed,
                frequency_new, b.distinct)

\* CBucket::CompareLowerBounds, mutated: the closure tie-break is dropped
CompareLowerBoundsNoTie(bucket1, bucket2) ==
    IF bucket1.lower = bucket2.lower THEN 0
    ELSE IF bucket1.lower < bucket2.lower THEN -1
    ELSE 1

\* CBucket::CompareLowerBounds
CompareLowerBounds(bucket1, bucket2) ==
    IF bucket1.lower = bucket2.lower
    THEN (IF bucket1.is_lower_closed = bucket2.is_lower_closed THEN 0
          ELSE IF bucket1.is_lower_closed THEN -1
          ELSE 1)
    ELSE IF bucket1.lower < bucket2.lower THEN -1
    ELSE 1

\* CBucket::CompareLowerBoundToUpperBound
CompareLowerBoundToUpperBound(bucket1, bucket2) ==
    IF bucket1.lower > bucket2.upper THEN 1
    ELSE IF bucket1.lower < bucket2.upper THEN -1
    ELSE IF bucket1.is_lower_closed /\ bucket2.is_upper_closed THEN 0
    ELSE 1

\* CBucket::CompareUpperBounds
CompareUpperBounds(bucket1, bucket2) ==
    IF bucket1.upper = bucket2.upper
    THEN (IF bucket1.is_upper_closed = bucket2.is_upper_closed THEN 0
          ELSE IF bucket1.is_upper_closed THEN 1
          ELSE -1)
    ELSE IF bucket1.upper < bucket2.upper THEN -1
    ELSE 1

\* CBucket::Subsumes: does b subsume bucket
Subsumes(b, bucket) ==
    IF IsSingleton(b) /\ IsSingleton(bucket) THEN b.lower = bucket.lower
    ELSE IF IsSingleton(bucket) THEN Contains(b, bucket.lower)
    ELSE /\ 0 >= CompareLowerBounds(b, bucket)
         /\ 0 <= CompareUpperBounds(b, bucket)

\* CBucket::Intersects
Intersects(b, bucket) ==
    IF IsSingleton(b) /\ IsSingleton(bucket) THEN b.lower = bucket.lower
    ELSE IF IsSingleton(b) THEN Contains(bucket, b.lower)
    ELSE IF IsSingleton(bucket) THEN Contains(b, bucket.lower)
    ELSE IF Subsumes(b, bucket) \/ Subsumes(bucket, b) THEN TRUE
    ELSE IF 0 >= CompareLowerBounds(b, bucket)
         THEN 0 >= CompareLowerBoundToUpperBound(bucket, b)
    ELSE 0 >= CompareLowerBoundToUpperBound(b, bucket)

\* CBucket::Width(), mutated: a singleton gets no width of its own
BucketWidthDistance(b) == Distance(b.upper, b.lower)

\* CBucket::Width()
BucketWidth(b) == IF IsSingleton(b) THEN One ELSE Distance(b.upper, b.lower)

\* CBucket::IsBefore(bucket)
IsBeforeBucket(b, bucket) ==
    IF Intersects(b, bucket) THEN FALSE ELSE b.upper <= bucket.lower

\* CBucket::IsAfter(bucket), mutated: a bucket that starts where the other
\* ends is not after it
IsAfterBucketStrict(b, bucket) ==
    IF Intersects(b, bucket) THEN FALSE ELSE b.lower > bucket.upper

\* CBucket::IsAfter(bucket)
IsAfterBucket(b, bucket) ==
    IF Intersects(b, bucket) THEN FALSE ELSE b.lower >= bucket.upper

\* MakeBucketIntersect, closure of the new lower bound, mutated: the closure of
\* the argument bucket wins when both lower bounds are equal
IntersectLowerClosedOther(b, bucket, lower_new) ==
    IF lower_new = bucket.lower THEN bucket.is_lower_closed
    ELSE b.is_lower_closed

\* MakeBucketIntersect: closure of the new lower bound (lower_new # upper_new)
IntersectLowerClosed(b, bucket, lower_new) ==
    IF lower_new = bucket.lower
    THEN (IF lower_new = b.lower
          THEN b.is_lower_closed /\ bucket.is_lower_closed
          ELSE bucket.is_lower_closed)
    ELSE b.is_lower_closed

\* MakeBucketIntersect: closure of the new upper bound (lower_new # upper_new)
IntersectUpperClosed(b, bucket, upper_new) ==
    IF upper_new = bucket.upper
    THEN (IF upper_new = b.upper
          THEN b.is_upper_closed /\ bucket.is_upper_closed
          ELSE bucket.is_upper_closed)
    ELSE b.is_upper_closed

\* CBucket::MakeBucketIntersect: the new bucket, the two contributed
\* frequencies and the two ratios
MakeBucketIntersect(b, bucket) ==
    LET lower_new == MaxPoint(b.lower, bucket.lower)
        upper_new == MinPoint(b.upper, bucket.upper)
        both_singleton == IsSingleton(b) /\ IsSingleton(bucket)
        collapsed == lower_new = upper_new
        lower_new_is_closed ==
            IF both_singleton \/ collapsed THEN TRUE
            ELSE IntersectLowerClosed(b, bucket, lower_new)
        upper_new_is_closed ==
            IF both_singleton \/ collapsed THEN TRUE
            ELSE IntersectUpperClosed(b, bucket, upper_new)
        distance_new == IF collapsed THEN One ELSE Distance(upper_new, lower_new)
        ratio1 == IF both_singleton THEN One ELSE RDiv(distance_new, BucketWidth(b))
        ratio2 == IF both_singleton THEN One ELSE RDiv(distance_new, BucketWidth(bucket))
        distinct_new == StdMin(RMul(ratio1, b.distinct), RMul(ratio2, bucket.distinct))
        freq_intersect1 == RMul(ratio1, b.frequency)
        freq_intersect2 == RMul(ratio2, bucket.frequency)
        frequency_new ==
            RDiv(RMul(RMul(freq_intersect1, freq_intersect2), One),
                 StdMax(RMul(ratio1, b.distinct), RMul(ratio2, bucket.distinct)))
    IN  [bucket |-> CBucket(lower_new, upper_new, lower_new_is_closed,
                            upper_new_is_closed, frequency_new, distinct_new),
         result_freq_intersect1 |-> freq_intersect1,
         result_freq_intersect2 |-> freq_intersect2,
         ratio1 |-> ratio1,
         ratio2 |-> ratio2]

\* Difference, the early returns, mutated: only a subsuming bucket keeps
\* Difference from splitting
DifferenceSplitsUnordered(b, bucket_other) == ~Subsumes(bucket_other, b)

\* CBucket::Difference: none of the three early returns is taken, so that the
\* code goes on to split this bucket at the bounds of the other
DifferenceSplits(b, bucket_other) ==
    /\ ~Subsumes(bucket_other, b)
    /\ ~IsBeforeBucket(b, bucket_other)
    /\ ~IsBeforeBucket(bucket_other, b)

\* CBucket::Difference: the lower and the upper residual
Difference(b, bucket_other) ==
    IF Subsumes(bucket_other, b)
    THEN [result_bucket_lower |-> NULL, result_bucket_upper |-> NULL]
    ELSE IF ~DifferenceSplits(b, bucket_other) /\ IsBeforeBucket(b, bucket_other)
    THEN [result_bucket_lower |-> Some(MakeBucketCopy(b)), result_bucket_upper |-> NULL]
    ELSE IF ~DifferenceSplits(b, bucket_other)
    THEN [result_bucket_lower |-> NULL, result_bucket_upper |-> Some(MakeBucketCopy(b))]
    ELSE [result_bucket_lower |->
              IF b.lower < bucket_other.lower
              THEN MakeBucketScaleUpper(b, bucket_other.lower, ~bucket_other.is_lower_closed)
              ELSE NULL,
          result_bucket_upper |->
              IF bucket_other.upper < b.upper
              THEN MakeBucketScaleLower(b, bucket_other.upper, ~bucket_other.is_upper_closed)
              ELSE NULL]

\* MakeBucketMerged, the branch that builds the upper third, mutated: equal
\* upper bound values are the same upper bound whatever the closures
MergeUpperCaseByValue(b, bucket_other) ==
    IF b.upper # bucket_other.upper
    THEN (IF IsSingleton(b) THEN "this_singleton"
          ELSE IF IsSingleton(bucket_other) THEN "other_singleton"
          ELSE IF b.upper = MaxPoint(b.upper, bucket_other.upper) THEN "from_this"
          ELSE "from_other")
    ELSE "same"

\* MakeBucketMerged: the branch that builds the upper third and sets the
\* upper overlap factors
MergeUpperCase(b, bucket_other) ==
    IF b.upper # bucket_other.upper
    THEN (IF IsSingleton(b) THEN "this_singleton"
          ELSE IF IsSingleton(bucket_other) THEN "other_singleton"
          ELSE IF b.upper = MaxPoint(b.upper, bucket_other.upper) THEN "from_this"
          ELSE "from_other")
    ELSE (IF b.is_upper_closed /\ ~bucket_other.is_upper_closed THEN "from_this"
          ELSE IF bucket_other.is_upper_closed /\ ~b.is_upper_closed THEN "from_other"
          ELSE "same")

\* MakeBucketMerged, the frequency of two merged singletons, mutated: the
\* larger of the two row counts for union-all as well
SingletonsFreqMax(this_bucket_rows, bucket_other_rows, total_rows, union_all) ==
    RDiv(StdMax(this_bucket_rows, bucket_other_rows), total_rows)

\* MakeBucketMerged: the frequency of two merged singletons
SingletonsFreq(this_bucket_rows, bucket_other_rows, total_rows, union_all) ==
    IF union_all
    THEN StdMin(One, RDiv(RAdd(this_bucket_rows, bucket_other_rows), total_rows))
    ELSE RDiv(StdMax(this_bucket_rows, bucket_other_rows), total_rows)

\* CBucket::MakeBucketMerged: the returned bucket, the two residuals
\* (bucket_new1, bucket_new2), result_rows, and the three zones it built
MakeBucketMerged(b, bucket_other, rows_this, rows_other, union_all) ==
    LET minLower == MinPoint(b.lower, bucket_other.lower)
        maxLower == MaxPoint(b.lower, bucket_other.lower)
        minUpper == MinPoint(b.upper, bucket_other.upper)
        maxUpper == MaxPoint(b.upper, bucket_other.upper)
        this_singleton  == IsSingleton(b)
        other_singleton == IsSingleton(bucket_other)
        this_bucket_rows  == RMul(b.frequency, rows_this)
        bucket_other_rows == RMul(bucket_other.frequency, rows_other)
        total_rows == IF union_all THEN RAdd(rows_this, rows_other)
                      ELSE StdMax(rows_this, rows_other)
        sameLowerBounds == minLower = maxLower
        sameUpperBounds == minUpper = maxUpper
        \* the lower third and the overlap factors it sets
        lowerFromThis  == ~sameLowerBounds /\ b.lower = minLower
        lowerFromOther == ~sameLowerBounds /\ b.lower # minLower
        lower_third ==
            IF lowerFromThis THEN MakeBucketScaleUpper(b, maxLower, FALSE)
            ELSE IF lowerFromOther THEN MakeBucketScaleUpper(bucket_other, maxLower, FALSE)
            ELSE NULL
        this_overlap_lower ==
            IF lowerFromThis THEN RSub(One, GetOverlapPercentage(b, maxLower, FALSE))
            ELSE Zero
        bucket_other_overlap_lower ==
            IF lowerFromOther
            THEN RSub(One, GetOverlapPercentage(bucket_other, maxLower, FALSE))
            ELSE Zero
        result_rows == IF lowerFromThis THEN rows_this
                       ELSE IF lowerFromOther THEN rows_other
                       ELSE total_rows
        \* the upper third: which branch of the code builds it
        upperCase == MergeUpperCase(b, bucket_other)
        upper_third ==
            CASE upperCase = "this_singleton"  -> MakeBucketScaleLower(bucket_other, minUpper, FALSE)
              [] upperCase = "other_singleton" -> MakeBucketScaleLower(b, minUpper, FALSE)
              [] upperCase = "from_this"       -> MakeBucketScaleLower(b, minUpper, TRUE)
              [] upperCase = "from_other"      -> MakeBucketScaleLower(bucket_other, minUpper, TRUE)
              [] OTHER                         -> NULL
        this_overlap_upper ==
            CASE upperCase = "other_singleton" -> GetOverlapPercentage(b, minUpper, TRUE)
              [] upperCase = "from_this"       -> GetOverlapPercentage(b, minUpper, FALSE)
              [] upperCase = "same"            -> One
              [] OTHER                         -> Zero
        bucket_other_overlap_upper ==
            CASE upperCase = "this_singleton"  -> GetOverlapPercentage(bucket_other, minUpper, TRUE)
              [] upperCase = "from_other"      -> GetOverlapPercentage(bucket_other, minUpper, FALSE)
              [] upperCase = "same"            -> One
              [] OTHER                         -> Zero
        \* the middle third
        this_overlap  == RAdd(this_overlap_lower, this_overlap_upper)
        other_overlap == RAdd(bucket_other_overlap_lower, bucket_other_overlap_upper)
        merged_rows_this  == RMul(this_bucket_rows, this_overlap)
        merged_rows_other == RMul(bucket_other_rows, other_overlap)
        merged_ndv_this   == RMul(b.distinct, this_overlap)
        merged_ndv_other  == RMul(bucket_other.distinct, other_overlap)
        merged_freq ==
            IF union_all
            THEN StdMin(One, RDiv(RAdd(merged_rows_this, merged_rows_other), total_rows))
            ELSE StdMin(One, RDiv(StdMax(merged_rows_this, merged_rows_other), total_rows))
        isLowerClosed == b.is_lower_closed \/ bucket_other.is_lower_closed
        merged_ndv_high == RAdd(merged_ndv_this, merged_ndv_other)
        max_merged_ndv  == Width(minUpper, maxLower, isLowerClosed, FALSE)
        a_singleton == this_singleton \/ other_singleton
        isUpperClosed == IF a_singleton
                         THEN b.is_upper_closed \/ bucket_other.is_upper_closed
                         ELSE FALSE
        merged_ndv == IF a_singleton THEN One
                      ELSE StdMin(max_merged_ndv, merged_ndv_high)
        middle_third == CBucket(maxLower, minUpper, isLowerClosed, isUpperClosed,
                                merged_freq, merged_ndv)
        zones == [lower_third |-> lower_third, middle_third |-> Some(middle_third),
                  upper_third |-> upper_third,
                  this_overlap |-> this_overlap, other_overlap |-> other_overlap,
                  merged_rows_this |-> merged_rows_this,
                  merged_rows_other |-> merged_rows_other,
                  merged_ndv_this |-> merged_ndv_this,
                  merged_ndv_other |-> merged_ndv_other,
                  total_rows |-> total_rows]
        \* the special case of two singletons
        singletons_freq ==
            SingletonsFreq(this_bucket_rows, bucket_other_rows, total_rows, union_all)
    IN  IF this_singleton /\ other_singleton
        THEN [result |-> Some(CBucket(minLower, maxUpper, TRUE, TRUE, singletons_freq, One)),
              bucket_new1 |-> NULL, bucket_new2 |-> NULL, result_rows |-> total_rows,
              zones |-> [zones EXCEPT !.lower_third = NULL, !.middle_third = NULL,
                                      !.upper_third = NULL]]
        ELSE IF IsNull(lower_third)
        THEN [result |-> Some(middle_third),
              bucket_new1 |->
                  IF ~IsNull(upper_third)
                     /\ Get(upper_third).upper = b.upper
                     /\ Get(upper_third).is_upper_closed = b.is_upper_closed
                  THEN upper_third ELSE NULL,
              bucket_new2 |->
                  IF ~IsNull(upper_third)
                     /\ ~(/\ Get(upper_third).upper = b.upper
                          /\ Get(upper_third).is_upper_closed = b.is_upper_closed)
                  THEN upper_third ELSE NULL,
              result_rows |-> result_rows, zones |-> zones]
        ELSE IF IsNull(upper_third)
        THEN [result |-> lower_third, bucket_new1 |-> Some(middle_third),
              bucket_new2 |-> NULL, result_rows |-> result_rows, zones |-> zones]
        ELSE IF Get(upper_third).upper = b.upper
        THEN [result |-> lower_third, bucket_new1 |-> upper_third,
              bucket_new2 |-> Some(middle_third),
              result_rows |-> result_rows, zones |-> zones]
        ELSE [result |-> lower_third, bucket_new1 |-> Some(middle_third),
              bucket_new2 |-> upper_third,
              result_rows |-> result_rows, zones |-> zones]

-----------------------------------------------------------------------------
(* The callers: legal buckets and legal arguments *)

\* <<frequency, distinct>> of the input buckets.  The distinct counts are
\* positive: MakeBucketSingleton divides by the distinct count, and what a
\* division by zero gives is CDouble's business
Stats == {<<Zero, One>>, <<Half, Two>>, <<One, Half>>, <<Half, One>>}

\* row counts of the two histograms
RowCounts == {One, Two}

\* the buckets the constructor accepts: lower <= upper, a singleton is closed
\* on both ends, 0 <= frequency <= 1, 0 <= distinct
BucketsWith(stats) ==
    { CBucket(l, u, lc, uc, s[1], s[2]) :
        <<l, u, lc, uc, s>> \in
            { x \in Points \X Points \X BOOLEAN \X BOOLEAN \X stats :
                /\ x[1] <= x[2]
                /\ (x[1] = x[2] => (x[3] /\ x[4])) } }

Buckets == BucketsWith(Stats)

\* argument buckets of the operations that read no frequency and no distinct
\* count of their argument
Shapes == BucketsWith({<<Half, Two>>})

Init ==
    /\ op = "none"
    /\ lint \in BOOLEAN
    /\ this \in Buckets
    /\ other = NULL
    /\ point = 0
    /\ include = FALSE
    /\ rows = <<One, One>>
    /\ is_union_all = FALSE
    /\ out = NULL

\* no operation has been called yet
Idle == op = "none"

\* a call on a point: records the arguments and the result
CallPoint(name, p, inc, result) ==
    /\ op' = name
    /\ point' = p
    /\ include' = inc
    /\ out' = result
    /\ UNCHANGED <<lint, this, other, rows, is_union_all>>

\* a call on another bucket: records the arguments and the result
CallBucket(name, bucket, result) ==
    /\ op' = name
    /\ other' = bucket
    /\ out' = result
    /\ UNCHANGED <<lint, this, point, include, rows, is_union_all>>

DoContains ==
    /\ Idle
    /\ \E p \in Points : CallPoint("Contains", p, FALSE, Contains(this, p))

DoIsBefore ==
    /\ Idle
    /\ \E p \in Points : CallPoint("IsBefore", p, FALSE, IsBefore(this, p))

DoIsAfter ==
    /\ Idle
    /\ \E p \in Points : CallPoint("IsAfter", p, FALSE, IsAfter(this, p))

DoGetOverlapPercentage ==
    /\ Idle
    /\ \E p \in Points, inc \in BOOLEAN :
           CallPoint("GetOverlapPercentage", p, inc, GetOverlapPercentage(this, p, inc))

\* GPOS_ASSERT(this->Contains(point_upper_new))
DoMakeBucketScaleUpper ==
    /\ Idle
    /\ \E p \in Points, inc \in BOOLEAN :
           /\ Contains(this, p)
           /\ CallPoint("MakeBucketScaleUpper", p, inc, MakeBucketScaleUpper(this, p, inc))

\* GPOS_ASSERT(this->Contains(point_lower_new))
DoMakeBucketScaleLower ==
    /\ Idle
    /\ \E p \in Points, inc \in BOOLEAN :
           /\ Contains(this, p)
           /\ CallPoint("MakeBucketScaleLower", p, inc, MakeBucketScaleLower(this, p, inc))

\* GPOS_ASSERT(this->Contains(point_singleton))
DoMakeBucketSingleton ==
    /\ Idle
    /\ \E p \in Points :
           /\ Contains(this, p)
           /\ CallPoint("MakeBucketSingleton", p, TRUE, Some(MakeBucketSingleton(this, p)))

DoMakeBucketCopy ==
    /\ Idle
    /\ CallPoint("MakeBucketCopy", point, include, Some(MakeBucketCopy(this)))

DoMakeBucketUpdateFrequency ==
    /\ Idle
    /\ \E rows_old \in RowCounts, rows_new \in RowCounts :
           /\ op' = "MakeBucketUpdateFrequency"
           /\ rows' = <<rows_old, rows_new>>
           /\ out' = Some(MakeBucketUpdateFrequency(this, rows_old, rows_new))
           /\ UNCHANGED <<lint, this, other, point, include, is_union_all>>

DoCompareLowerBounds ==
    /\ Idle
    /\ \E b \in Shapes : CallBucket("CompareLowerBounds", b, CompareLowerBounds(this, b))

DoCompareUpperBounds ==
    /\ Idle
    /\ \E b \in Shapes : CallBucket("CompareUpperBounds", b, CompareUpperBounds(this, b))

DoCompareLowerBoundToUpperBound ==
    /\ Idle
    /\ \E b \in Shapes :
           CallBucket("CompareLowerBoundToUpperBound", b, CompareLowerBoundToUpperBound(this, b))

DoSubsumes ==
    /\ Idle
    /\ \E b \in Shapes : CallBucket("Subsumes", b, Subsumes(this, b))

DoIntersects ==
    /\ Idle
    /\ \E b \in Shapes : CallBucket("Intersects", b, Intersects(this, b))

DoIsBeforeBucket ==
    /\ Idle
    /\ \E b \in Shapes : CallBucket("IsBeforeBucket", b, IsBeforeBucket(this, b))

DoIsAfterBucket ==
    /\ Idle
    /\ \E b \in Shapes : CallBucket("IsAfterBucket", b, IsAfterBucket(this, b))

\* GPOS_ASSERT(Intersects(bucket))
DoMakeBucketIntersect ==
    /\ Idle
    /\ \E b \in Buckets :
           /\ Intersects(this, b)
           /\ CallBucket("MakeBucketIntersect", b, MakeBucketIntersect(this, b))

DoDifference ==
    /\ Idle
    /\ \E b \in Shapes : CallBucket("Difference", b, Difference(this, b))

\* the histograms merge the buckets that intersect
DoMakeBucketMerged ==
    /\ Idle
    /\ \E b \in Buckets, r \in RowCounts, ro \in RowCounts, ua \in BOOLEAN :
           /\ Intersects(this, b)
           /\ op' = "MakeBucketMerged"
           /\ other' = b
           /\ rows' = <<r, ro>>
           /\ is_union_all' = ua
           /\ out' = MakeBucketMerged(this, b, r, ro, ua)
           /\ UNCHANGED <<lint, this, point, include>>

NextPoint ==
    \/ DoContains
    \/ DoIsBefore
    \/ DoIsAfter
    \/ DoGetOverlapPercentage
    \/ DoMakeBucketScaleUpper
    \/ DoMakeBucketScaleLower
    \/ DoMakeBucketSingleton
    \/ DoMakeBucketCopy
    \/ DoMakeBucketUpdateFrequency

NextPair ==
    \/ DoCompareLowerBounds
    \/ DoCompareUpperBounds
    \/ DoCompareLowerBoundToUpperBound
    \/ DoSubsumes
    \/ DoIntersects
    \/ DoIsBeforeBucket
    \/ DoIsAfterBucket
    \/ DoMakeBucketIntersect
    \/ DoDifference

NextMerge == DoMakeBucketMerged

Next == NextPoint \/ NextPair \/ NextMerge

\* the operations on a bucket and a point
SpecPoint == Init /\ [][NextPoint]_vars

\* the operations on two buckets
SpecPair == Init /\ [][NextPair]_vars

\* the merge of two buckets
SpecMerge == Init /\ [][NextMerge]_vars

\* every operation
Spec == Init /\ [][Next]_vars

-----------------------------------------------------------------------------
(* What the operations returned *)

\* the buckets of a set of present or absent results
Present(results) == { Get(r) : r \in { x \in results : ~IsNull(x) } }

\* the buckets the last operation constructed
OutBuckets ==
    CASE op \in {"MakeBucketScaleUpper", "MakeBucketScaleLower", "MakeBucketSingleton",
                 "MakeBucketCopy", "MakeBucketUpdateFrequency"} -> Present({out})
      [] op = "MakeBucketIntersect" -> {out.bucket}
      [] op = "Difference" -> Present({out.result_bucket_lower, out.result_bucket_upper})
      [] op = "MakeBucketMerged" -> Present({out.result, out.bucket_new1, out.bucket_new2})
      [] OTHER -> {}

\* no bucket the last operation constructed holds the result of a division by
\* zero
OutDefined == \A b \in OutBuckets : Defined(b.frequency) /\ Defined(b.distinct)

\* the number of the given buckets that contain p
Covering(buckets, p) == Cardinality({ b \in buckets : Contains(b, p) })

-----------------------------------------------------------------------------
(* C1 *)

\* C1: for every legal bucket and every point, Contains(point) is true exactly
\* when IsBefore(point) and IsAfter(point) are both false
C1_ContainsIffNeitherBeforeNorAfter ==
    op = "Contains" => (out <=> (~IsBefore(this, point) /\ ~IsAfter(this, point)))

\* Contains was called with the closed upper bound of a range bucket
C1_Witness ==
    /\ op = "Contains"
    /\ ~IsSingleton(this)
    /\ this.is_upper_closed
    /\ point = this.upper
    /\ out = TRUE

-----------------------------------------------------------------------------
(* C2 *)

\* C2: for intersecting buckets, the residuals of this.Difference(other) and the
\* bucket of this.MakeBucketIntersect(other) reconstruct the range of this: a
\* point of this lies in exactly one of them, a point outside this in none
C2_DifferenceAndIntersectReconstruct ==
    (op = "Difference" /\ Intersects(this, other)) =>
        LET pieces == Present({out.result_bucket_lower, out.result_bucket_upper})
            middle == MakeBucketIntersect(this, other).bucket
        IN  \A p \in Points :
                Covering(pieces, p) + Covering({middle}, p)
                    = (IF Contains(this, p) THEN 1 ELSE 0)

-----------------------------------------------------------------------------
(* C3 *)

\* C3: every bucket an operation produces from legal buckets and arguments has
\* 0 <= frequency <= 1 and distinct >= 0
C3_ProducedBucketsInRange ==
    \A b \in OutBuckets : FrequencyAssert(b) /\ DistinctAssert(b)

-----------------------------------------------------------------------------
(* C4 *)

\* C4: every bucket a transform builds with equal lower and upper bound is
\* closed on both ends
C4_ProducedSingletonsClosed ==
    \A b \in OutBuckets : SingletonAssert(b)

-----------------------------------------------------------------------------
(* C5 *)

\* C5: scaling a bucket to its own upper bound with its own upper closure, or
\* to its own lower bound with its own lower closure, returns a bucket that
\* Equals the bucket
C5_ScaleIdempotent ==
    /\ (op = "MakeBucketScaleUpper" /\ point = this.upper
            /\ include = this.is_upper_closed)
        => (~IsNull(out) /\ Equals(Get(out), this))
    /\ (op = "MakeBucketScaleLower" /\ point = this.lower
            /\ include = this.is_lower_closed)
        => (~IsNull(out) /\ Equals(Get(out), this))

-----------------------------------------------------------------------------
(* C6 *)

\* C6: for a contained point the overlap percentage lies in [0, 1]; at the
\* lower bound taken inclusively it is 0, at the upper bound taken inclusively
\* it is 1
C6_OverlapBounds ==
    (op = "GetOverlapPercentage" /\ Contains(this, point)) =>
        /\ RLe(Zero, out) /\ RLe(out, One)
        /\ (point = this.upper /\ include) => REq(out, One)
        /\ (point = this.lower /\ ~IsSingleton(this) /\ include) => REq(out, Zero)

-----------------------------------------------------------------------------
(* C7 *)

\* the same bounds and closures
SameRange(b1, b2) ==
    /\ b1.lower = b2.lower /\ b1.is_lower_closed = b2.is_lower_closed
    /\ b1.upper = b2.upper /\ b1.is_upper_closed = b2.is_upper_closed

\* C7: CompareLowerBounds and CompareUpperBounds give 0 on a bucket and itself,
\* are antisymmetric, and at equal values order a closed lower bound before an
\* open one and an open upper bound before a closed one
C7_CompareBoundsConsistent ==
    /\ op = "CompareLowerBounds" =>
        /\ out \in {-1, 0, 1}
        /\ SameRange(this, other) => out = 0
        /\ out = -CompareLowerBounds(other, this)
        /\ (this.lower = other.lower /\ this.is_lower_closed /\ ~other.is_lower_closed)
               => out = -1
        /\ this.lower < other.lower => out = -1
    /\ op = "CompareUpperBounds" =>
        /\ out \in {-1, 0, 1}
        /\ SameRange(this, other) => out = 0
        /\ out = -CompareUpperBounds(other, this)
        /\ (this.upper = other.upper /\ ~this.is_upper_closed /\ other.is_upper_closed)
               => out = -1
        /\ this.upper < other.upper => out = -1

\* the lower bounds of a closed and an open bucket at the same value were compared
C7_Witness ==
    /\ op = "CompareLowerBounds"
    /\ this.lower = other.lower
    /\ this.is_lower_closed /\ ~other.is_lower_closed
    /\ out = -1

-----------------------------------------------------------------------------
(* C8 *)

\* a present singleton bucket at point p
SingletonAt(r, p) ==
    /\ ~IsNull(r)
    /\ Get(r).lower = p /\ Get(r).upper = p
    /\ Get(r).is_lower_closed /\ Get(r).is_upper_closed

\* C8: a scale whose new bound equals the opposite bound of the bucket returns
\* a singleton at that point when the new bound is inclusive and an absent
\* result when it is exclusive, for MakeBucketScaleUpper and MakeBucketScaleLower
C8_CollapsingScale ==
    /\ (op = "MakeBucketScaleUpper" /\ point = this.lower) =>
           IF include THEN SingletonAt(out, point) ELSE IsNull(out)
    /\ (op = "MakeBucketScaleLower" /\ point = this.upper) =>
           IF include THEN SingletonAt(out, point) ELSE IsNull(out)

-----------------------------------------------------------------------------
(* C9 *)

\* the share of the width of bucket b that the range of bucket r covers
WidthShare(r, b) ==
    RDiv(Width(r.upper, r.lower, r.is_lower_closed, r.is_upper_closed),
         Width(b.upper, b.lower, b.is_lower_closed, b.is_upper_closed))

\* C9: a scale that does not collapse keeps the untouched bound and closure,
\* takes the point with the requested closure as the other bound, and
\* multiplies frequency and distinct by the share of the width the new range
\* covers; for a point strictly inside, the frequencies of
\* MakeBucketScaleUpper(p, c) and MakeBucketScaleLower(p, ~c) sum to the
\* frequency of the bucket
C9_ScaleByWidthShare ==
    /\ (op = "MakeBucketScaleUpper" /\ point # this.lower) =>
        /\ ~IsNull(out)
        /\ Get(out).lower = this.lower
        /\ Get(out).is_lower_closed = this.is_lower_closed
        /\ Get(out).upper = point
        /\ Get(out).is_upper_closed = include
        /\ REq(Get(out).frequency, RMul(this.frequency, WidthShare(Get(out), this)))
        /\ REq(Get(out).distinct, RMul(this.distinct, WidthShare(Get(out), this)))
        /\ (point # this.upper) =>
               REq(RAdd(Get(out).frequency,
                        Get(MakeBucketScaleLower(this, point, ~include)).frequency),
                   this.frequency)
    /\ (op = "MakeBucketScaleLower" /\ point # this.upper) =>
        /\ ~IsNull(out)
        /\ Get(out).upper = this.upper
        /\ Get(out).is_upper_closed = this.is_upper_closed
        /\ Get(out).lower = point
        /\ Get(out).is_lower_closed = include
        /\ REq(Get(out).frequency, RMul(this.frequency, WidthShare(Get(out), this)))
        /\ REq(Get(out).distinct, RMul(this.distinct, WidthShare(Get(out), this)))

-----------------------------------------------------------------------------
(* C10 *)

\* C10: the bucket of MakeBucketIntersect has the larger lower bound and the
\* smaller upper bound, each of its bounds is closed only if it is closed in
\* every input whose own bound has that value, and it contains a point exactly
\* when both inputs contain it
C10_IntersectBounds ==
    op = "MakeBucketIntersect" =>
        LET r == out.bucket
        IN  /\ r.lower = MaxPoint(this.lower, other.lower)
            /\ r.upper = MinPoint(this.upper, other.upper)
            /\ r.is_lower_closed =>
                   \A b \in {this, other} : b.lower = r.lower => b.is_lower_closed
            /\ r.is_upper_closed =>
                   \A b \in {this, other} : b.upper = r.upper => b.is_upper_closed
            /\ \A p \in Points :
                   Contains(r, p) <=> (Contains(this, p) /\ Contains(other, p))

\* two range buckets with the same lower bound value, one open and one closed,
\* were intersected
C10_Witness ==
    /\ op = "MakeBucketIntersect"
    /\ ~IsSingleton(this) /\ ~IsSingleton(other)
    /\ this.lower = other.lower
    /\ ~this.is_lower_closed /\ other.is_lower_closed
    /\ out.bucket.lower # out.bucket.upper
    /\ ~out.bucket.is_lower_closed

-----------------------------------------------------------------------------
(* C11 *)

\* the width of a range of values: 1 for a single value, else upper - lower
RangeWidth(b) == IF b.lower = b.upper THEN One ELSE Int2R(b.upper - b.lower)

\* the smaller and the larger of two fractions
Smaller(a, b) == IF RLe(a, b) THEN a ELSE b
Larger(a, b) == IF RLe(a, b) THEN b ELSE a

\* C11: MakeBucketIntersect takes as ratio of each side the width of the
\* intersection over the width of that side (1 and 1 for two singletons) and
\* returns distinct = min(ratio1*distinct1, ratio2*distinct2), frequency =
\* (ratio1*freq1)*(ratio2*freq2) / max(ratio1*distinct1, ratio2*distinct2)
\* and the two contributed frequencies ratio1*freq1 and ratio2*freq2
C11_IntersectRatios ==
    op = "MakeBucketIntersect" =>
        LET r  == out.bucket
            r1 == RDiv(RangeWidth(r), RangeWidth(this))
            r2 == RDiv(RangeWidth(r), RangeWidth(other))
            n1 == RMul(r1, this.distinct)
            n2 == RMul(r2, other.distinct)
            f1 == RMul(r1, this.frequency)
            f2 == RMul(r2, other.frequency)
        IN  /\ (IsSingleton(this) /\ IsSingleton(other)) => (r1 = One /\ r2 = One)
            /\ REq(out.ratio1, r1)
            /\ REq(out.ratio2, r2)
            /\ REq(r.distinct, Smaller(n1, n2))
            /\ REq(r.frequency, RDiv(RMul(f1, f2), Larger(n1, n2)))
            /\ REq(out.result_freq_intersect1, f1)
            /\ REq(out.result_freq_intersect2, f2)

\* a closed range was intersected with a closed range that contains it on
\* both sides, as [10,14] with [8,16]
C11_Witness ==
    /\ op = "MakeBucketIntersect"
    /\ this.lower < this.upper
    /\ other.lower < this.lower /\ this.upper < other.upper
    /\ this.is_lower_closed /\ this.is_upper_closed
    /\ other.is_lower_closed /\ other.is_upper_closed
    /\ out.bucket.lower = this.lower /\ out.bucket.upper = this.upper
    /\ out.ratio1 = One
    /\ out.ratio2 = RDiv(RangeWidth(this), RangeWidth(other))
    /\ RLt(out.ratio2, One)

-----------------------------------------------------------------------------
(* C12 *)

\* the width of a bucket, by its bounds and closures
OwnWidth(b) == Width(b.upper, b.lower, b.is_lower_closed, b.is_upper_closed)

\* the bucket MakeBucketMerged built for the middle zone
MergedMiddle ==
    IF IsSingleton(this) /\ IsSingleton(other) THEN Get(out.result)
    ELSE Get(out.zones.middle_third)

\* the share of the width of b that lies in the middle zone, the range the two
\* merged buckets have in common; all of a singleton lies in it
MiddleShare(b) ==
    IF IsSingleton(b) THEN One
    ELSE WidthShare(MakeBucketIntersect(this, other).bucket, b)

\* the number of rows of b, a bucket of a histogram of r rows, that fall in the
\* middle zone
RowsInMiddle(b, r) == RMul(RMul(b.frequency, r), MiddleShare(b))

\* both merged buckets have a width to take a share of
MergedWidthsPositive ==
    /\ IsSingleton(this) \/ RLt(Zero, OwnWidth(this))
    /\ IsSingleton(other) \/ RLt(Zero, OwnWidth(other))

\* C12: the frequency of the middle-zone bucket of MakeBucketMerged is
\* min(1, (contribution1 + contribution2) / (rowsThis + rowsOther)) for
\* union-all and min(1, max(contribution1, contribution2) / max(rowsThis,
\* rowsOther)) for plain union, contributionN being the number of rows of
\* bucket N that fall in the middle zone
C12_MiddleFrequency ==
    (op = "MakeBucketMerged" /\ MergedWidthsPositive) =>
        LET c1 == RowsInMiddle(this, rows[1])
            c2 == RowsInMiddle(other, rows[2])
        IN  REq(MergedMiddle.frequency,
                IF is_union_all
                THEN Smaller(One, RDiv(RAdd(c1, c2), RAdd(rows[1], rows[2])))
                ELSE Smaller(One, RDiv(Larger(c1, c2), Larger(rows[1], rows[2]))))

-----------------------------------------------------------------------------
(* C13 *)

\* C13: for two non-singleton buckets the distinct count of the middle-zone
\* bucket of MakeBucketMerged is the average of the sum and of the larger of
\* the two sides' middle-zone distinct counts, capped at the width of the zone
C13_MiddleDistinctAverage ==
    (op = "MakeBucketMerged" /\ ~IsSingleton(this) /\ ~IsSingleton(other)) =>
        LET n1  == out.zones.merged_ndv_this
            n2  == out.zones.merged_ndv_other
            avg == RMul(Half, RAdd(RAdd(n1, n2), Larger(n1, n2)))
        IN  REq(MergedMiddle.distinct, Smaller(OwnWidth(MergedMiddle), avg))

-----------------------------------------------------------------------------
(* C14 *)

\* both residuals of the last merge are absent
NoResiduals == IsNull(out.bucket_new1) /\ IsNull(out.bucket_new2)

\* b is a singleton that the range bucket r contains
SingletonIn(b, r) == IsSingleton(b) /\ ~IsSingleton(r) /\ Contains(r, b.lower)

-----------------------------------------------------------------------------
(* C15 *)

\* two singletons at the same point were merged with union-all and equal row
\* counts
SingletonsUnionAll ==
    /\ op = "MakeBucketMerged"
    /\ IsSingleton(this) /\ IsSingleton(other) /\ this.lower = other.lower
    /\ is_union_all
    /\ rows[1] = rows[2]

\* C15 as stated: merging two singletons at the same point with union-all and
\* equal row counts returns one singleton at that point, no residual,
\* distinct 1 and frequency min(1, f1 + f2)
C15_SingletonsUnionAllSum ==
    SingletonsUnionAll =>
        /\ SingletonAt(out.result, this.lower)
        /\ NoResiduals
        /\ REq(Get(out.result).distinct, One)
        /\ REq(Get(out.result).frequency,
               Smaller(One, RAdd(this.frequency, other.frequency)))

\* C15 amended: merging two singletons at the same point with union-all and
\* equal row counts returns one singleton at that point, no residual,
\* distinct 1 and frequency (f1 + f2) / 2, the rows of the value over the
\* rows of both histograms
C15_SingletonsUnionAllMean ==
    SingletonsUnionAll =>
        /\ SingletonAt(out.result, this.lower)
        /\ NoResiduals
        /\ REq(Get(out.result).distinct, One)
        /\ REq(Get(out.result).frequency,
               RMul(Half, RAdd(this.frequency, other.frequency)))

\* singletons of frequency 1 and 1/2 were merged: frequency 3/4
C15_Witness ==
    /\ SingletonsUnionAll
    /\ this.frequency = One /\ other.frequency = Half
    /\ REq(Get(out.result).frequency, RMul(Half, RAdd(One, Half)))

-----------------------------------------------------------------------------
(* C16 *)

\* the residuals the last merge returned
Residuals == Present({out.bucket_new1, out.bucket_new2})

\* C16: the buckets MakeBucketMerged returns do not intersect each other and
\* cover exactly the union of the two inputs: a point of an input is in
\* exactly one returned bucket, a point of no input is in none, and the
\* returned bucket is the lowest of them
C16_MergedPartition ==
    op = "MakeBucketMerged" =>
        /\ ~IsNull(out.result)
        /\ \A p \in Points :
               Covering(OutBuckets, p) =
                   IF Contains(this, p) \/ Contains(other, p) THEN 1 ELSE 0
        /\ \A b1 \in OutBuckets : \A b2 \in OutBuckets \ {b1} : ~Intersects(b1, b2)
        /\ \A r \in Residuals : IsBeforeBucket(Get(out.result), r)

-----------------------------------------------------------------------------
(* C17 *)

\* the total row count the frequencies of the merged histogram refer to
TotalRows ==
    IF is_union_all THEN RAdd(rows[1], rows[2]) ELSE Larger(rows[1], rows[2])

\* C17: the fraction of each input bucket that MakeBucketMerged attributes to
\* the middle zone is the share of the bucket's width that lies in the middle
\* zone and is at most 1, so the rows and the distinct count a bucket
\* contributes to the middle zone do not exceed its own
C17_OverlapIsShare ==
    (/\ op = "MakeBucketMerged"
     /\ ~(IsSingleton(this) /\ IsSingleton(other))
     /\ MergedWidthsPositive) =>
        /\ REq(out.zones.this_overlap, MiddleShare(this))
        /\ REq(out.zones.other_overlap, MiddleShare(other))
        /\ RLe(out.zones.this_overlap, One)
        /\ RLe(out.zones.other_overlap, One)
        /\ RLe(out.zones.merged_rows_this, RMul(this.frequency, rows[1]))
        /\ RLe(out.zones.merged_rows_other, RMul(other.frequency, rows[2]))
        /\ RLe(out.zones.merged_ndv_this, this.distinct)
        /\ RLe(out.zones.merged_ndv_other, other.distinct)

-----------------------------------------------------------------------------
(* C18 *)

\* the whole range of b lies in the middle zone of the merge of b and r: b is
\* a singleton that r contains, or a range strictly inside r
WhollyIn(b, r) ==
    \/ SingletonIn(b, r)
    \/ (~IsSingleton(b) /\ r.lower < b.lower /\ b.upper < r.upper)

\* C18: an input bucket of MakeBucketMerged whose whole range lies in the
\* middle zone contributes all its rows: the frequency of the middle bucket
\* is at least the rows of that bucket over max(rowsThis, rowsOther) for plain
\* union, over rowsThis + rowsOther for union-all
C18_ContainedContributesAll ==
    op = "MakeBucketMerged" =>
        /\ WhollyIn(this, other) =>
               RLe(RDiv(RMul(this.frequency, rows[1]), TotalRows),
                   MergedMiddle.frequency)
        /\ WhollyIn(other, this) =>
               RLe(RDiv(RMul(other.frequency, rows[2]), TotalRows),
                   MergedMiddle.frequency)

-----------------------------------------------------------------------------
(* C19 *)

\* Difference reaches its call of MakeBucketScaleUpper(other.lower, ...)
CallsScaleUpper == DifferenceSplits(this, other) /\ this.lower < other.lower

\* Difference reaches its call of MakeBucketScaleLower(other.upper, ...)
CallsScaleLower == DifferenceSplits(this, other) /\ other.upper < this.upper

\* C19: whenever Difference calls MakeBucketScaleUpper(other.lower, ...) or
\* MakeBucketScaleLower(other.upper, ...), this bucket contains the point it
\* passes, so the Contains assertion of the scale operations holds
C19_DifferenceScalesContainedPoint ==
    op = "Difference" =>
        /\ CallsScaleUpper =>
               /\ Contains(this, other.lower)
               /\ out.result_bucket_lower =
                      MakeBucketScaleUpper(this, other.lower, ~other.is_lower_closed)
        /\ CallsScaleLower =>
               /\ Contains(this, other.upper)
               /\ out.result_bucket_upper =
                      MakeBucketScaleLower(this, other.upper, ~other.is_upper_closed)

\* Difference has cut a bucket strictly inside this one out of it, with both
\* scale calls
C19_Witness ==
    /\ op = "Difference"
    /\ CallsScaleUpper /\ CallsScaleLower
    /\ ~IsNull(out.result_bucket_lower) /\ ~IsNull(out.result_bucket_upper)
    /\ Get(out.result_bucket_lower).upper = other.lower
    /\ Get(out.result_bucket_upper).lower = other.upper

-----------------------------------------------------------------------------
(* C20 *)

\* the number of the three relations that hold between b1 and b2
Relations(b1, b2) ==
    Cardinality({ i \in 1..3 :
        \/ i = 1 /\ Intersects(b1, b2)
        \/ i = 2 /\ IsBeforeBucket(b1, b2)
        \/ i = 3 /\ IsAfterBucket(b1, b2) })

\* C20: of Intersects, IsBefore and IsAfter exactly one holds between two
\* buckets, Intersects is symmetric, and A is before B exactly when B is
\* after A
C20_OrderingTrichotomy ==
    /\ op = "Intersects" =>
        /\ out = Intersects(other, this)
        /\ (IF out THEN 1 ELSE 0)
             + (IF IsBeforeBucket(this, other) THEN 1 ELSE 0)
             + (IF IsAfterBucket(this, other) THEN 1 ELSE 0) = 1
    /\ op = "IsBeforeBucket" =>
        /\ out = IsAfterBucket(other, this)
        /\ Relations(this, other) = 1
    /\ op = "IsAfterBucket" =>
        /\ out = IsBeforeBucket(other, this)
        /\ Relations(this, other) = 1

\* IsBefore was called on two buckets that touch in a point one of them
\* leaves out, and answered yes
C20_Witness ==
    /\ op = "IsBeforeBucket"
    /\ this.upper = other.lower
    /\ this.lower < this.upper /\ other.lower < other.upper
    /\ out
    /\ ~Intersects(this, other) /\ IsAfterBucket(other, this)

====
